---- MODULE Spec2Model ----
(***************************************************************************)
(* A model of the concurrent perception-and-dispatch core of the assistant *)
(* backend:                                                                *)
(*   - LLMManager.query           (src/src/llm_manager.py)                 *)
(*   - VoiceProcessor             (src/src/voice_processor.py)             *)
(*   - ContextManager             (src/src/context_manager.py)             *)
(*   - the request layer that calls them (src/src/main.py)                 *)
(* Python strings are sequences of one-character strings, so that lower(), *)
(* replace(), strip() and the `in` test are computed as Python computes    *)
(* them.                                                                   *)
(***************************************************************************)
EXTENDS Integers, Sequences, FiniteSets, TLC

(***************************************************************************)
(* Bounds of the model.                                                    *)
(***************************************************************************)
\* longest backend list LLMManager is constructed with
MaxClients == 3

\* most pieces a transcript is made of
MaxPieces == 3

\* most stream.read() calls of the continuous loop in one run
MaxReads == 3

\* most stream.read() calls in a run that hears every transcript
WakeReads == 1

\* most iterations of the screen sampler's loop in one run
MaxCycles == 2

\* most iterations of the sampler's loop in a run without get_context() calls
ChangeCycles == 3

\* most iterations of the sampler's loop in a run that is stopped
StopCycles == 1

\* most stream.read() calls of the continuous loop in a run that fills the
\* recent-audio window
BufferReads == 217

\* most stream.read() calls of one capture_voice() call before its timeout
MaxCaptureReads == 1

\* most streams left open by failed reads where reads are not counted
MaxLeaked == 1

\* the buffer length up to which len(frames) is counted where reads are not
\* counted
MaxBuffered == 1

(***************************************************************************)
(* State.                                                                  *)
(***************************************************************************)
\* LLMManager and the process_command_logic call that uses it
VARIABLES
    clients,      \* self.clients, each entry [id, outcome]
    llm_pc,       \* position of the one query() call
    llm_i,        \* index of the for loop over self.clients
    in_flight,    \* ids of the clients whose query() is being awaited
    invoked,      \* ids of the clients called, in call order
    llm_log,      \* logger.error entries written by query()
    llm_out,      \* how query() ended: [kind, val]
    response      \* what process_command_logic hands to its caller

llmVars == <<clients, llm_pc, llm_i, in_flight, invoked, llm_log, llm_out, response>>

\* VoiceProcessor, the pollers of /voice_commands and the caller of stop()
VARIABLES
    vp_running,     \* self.running
    vp_lock,        \* holder of self.lock, or "free"
    pa_terminated,  \* self.pyaudio.terminate() has been called
    command_queue,  \* self.command_queue, oldest first
    l_pc,           \* position of _continuous_listen
    l_stream,       \* the stream opened by the loop is open
    frames,         \* len(frames)
    silence_count,  \* silence_count, in samples
    text,           \* the last transcript recognize_google returned
    reads,          \* number of stream.read() calls so far
    enqueued,       \* every entry ever put on the queue, in put() order
    p_pc,           \* position of each /voice_commands poll
    p_ret,          \* what get_command() returned to each poll
    popped,         \* the entries get_command() has returned and to whom, in order
    stop_pc         \* position of the call of stop()

voiceVars == <<vp_running, vp_lock, pa_terminated, command_queue, l_pc, l_stream,
               frames, silence_count, text, reads, enqueued, p_pc, p_ret, popped,
               stop_pc>>

\* ContextManager, the callers of get_context() and of stop()
VARIABLES
    cm_running,     \* self.running
    cm_lock,        \* holder of self.lock, or "free"
    context,        \* self.context
    last_gray_img,  \* self.last_gray_img
    s_pc,           \* position of _continuous_monitor
    gray_img,       \* the loop's local gray_img
    s_text,         \* the loop's local text
    active_app,     \* the loop's local active_app
    cycle,          \* number of the loop's iteration
    made_in,        \* the iteration that assigned gray_img, text, active_app
    context_from,   \* the iterations whose frame, text and app self.context holds
    r_pc,           \* position of each get_context() call
    r_ret,          \* the value the call returned
    r_from          \* the iterations whose frame, text and app r_ret holds

ctxVars == <<cm_running, cm_lock, context, last_gray_img, s_pc, gray_img, s_text,
             active_app, cycle, made_in, context_from, r_pc, r_ret, r_from>>

\* the frame the sampler captured in the iteration before the current one
VARIABLES prev_img

\* the callers of capture_voice() and the streams PyAudio holds open
VARIABLES
    c_pc,      \* position of each capture_voice() call
    c_stream,  \* the stream opened by the call is open
    c_frames,  \* len(frames) of the call
    c_limit,   \* the call's phrase_time_limit, in samples (phrase_time_limit * rate)
    c_ret,     \* what the call returned
    c_cause,   \* how the call ended
    leaked     \* number of open streams that no thread will close

micVars == <<c_pc, c_stream, c_frames, c_limit, c_ret, c_cause>>

\* the answers of get_voice_commands
VARIABLES
    p_out,      \* what each poll answered last
    dispatched  \* the ids of the entries handed to process_command_logic

pollVars == <<p_out, dispatched>>

\* what a capture_voice() call leaves alone of the VoiceProcessor
nonMic == <<vp_running, pa_terminated, command_queue, l_pc, l_stream, frames,
            silence_count, text, reads, enqueued, p_pc, p_ret, popped, stop_pc>>

\* what the actions of one component leave alone
nonLLM == <<voiceVars, micVars, leaked, pollVars, ctxVars, prev_img>>

nonVoice == <<llmVars, ctxVars, prev_img>>

nonCtx == <<llmVars, voiceVars, micVars, leaked, pollVars>>

vars == <<llmVars, voiceVars, micVars, leaked, pollVars, ctxVars, prev_img>>

(***************************************************************************)
(* Python str operations on sequences of characters.                       *)
(***************************************************************************)
UpperCase == <<"A", "B", "C", "D", "E", "F", "G", "H", "I", "J", "K", "L", "M",
               "N", "O", "P", "Q", "R", "S", "T", "U", "V", "W", "X", "Y", "Z">>

LowerCase == <<"a", "b", "c", "d", "e", "f", "g", "h", "i", "j", "k", "l", "m",
               "n", "o", "p", "q", "r", "s", "t", "u", "v", "w", "x", "y", "z">>

Whitespace == {" ", "\t", "\n"}

LowerChar(c) ==
    IF \E i \in DOMAIN UpperCase : UpperCase[i] = c
    THEN LowerCase[CHOOSE i \in DOMAIN UpperCase : UpperCase[i] = c]
    ELSE c

\* str.lower()
Lower(s) == [i \in DOMAIN s |-> LowerChar(s[i])]

\* s[i:i+len(sub)] == sub
MatchAt(s, sub, i) ==
    /\ i + Len(sub) - 1 <= Len(s)
    /\ \A k \in 1..Len(sub) : s[i + k - 1] = sub[k]

\* sub in s
Contains(s, sub) == \E i \in 1..(Len(s) + 1) : MatchAt(s, sub, i)

\* s.replace(old, ""): one left-to-right pass over non-overlapping occurrences
RECURSIVE ReplaceFrom(_, _, _)
ReplaceFrom(s, old, i) ==
    IF i > Len(s) THEN <<>>
    ELSE IF MatchAt(s, old, i) THEN ReplaceFrom(s, old, i + Len(old))
    ELSE <<s[i]>> \o ReplaceFrom(s, old, i + 1)

Replace(s, old) == ReplaceFrom(s, old, 1)

\* s.strip()
Strip(s) ==
    LET keep == {i \in DOMAIN s : s[i] \notin Whitespace}
    IN  IF keep = {} THEN <<>>
        ELSE LET lo == CHOOSE i \in keep : \A j \in keep : i <= j
                 hi == CHOOSE i \in keep : \A j \in keep : j <= i
             IN  SubSeq(s, lo, hi)

(***************************************************************************)
(* LLMManager (src/src/llm_manager.py).                                    *)
(*                                                                         *)
(* A client of the list is identified by its position; its `outcome` is    *)
(* what its query() does in this call: return a reply ("ok"), raise        *)
(* ("error"), or not answer within the timeout ("timeout").                *)
(***************************************************************************)

BackendOutcomes == {"ok", "error", "timeout"}

NO_CLIENTS_MSG == "No LLM clients configured"

ALL_FAILED_MSG == "All LLM clients failed"

NoOutcome == [kind |-> "none", val |-> <<>>]

Returned(v) == [kind |-> "return", val |-> v]

Raised(msg) == [kind |-> "raise", val |-> <<msg>>]

\* the reply of client number id
ReplyOf(id) == <<"reply", id>>

ClientLists ==
    UNION {[1..n -> BackendOutcomes] : n \in 0..MaxClients}

LLMInit ==
    /\ \E outs \in ClientLists :
          clients = [i \in DOMAIN outs |-> [id |-> i, outcome |-> outs[i]]]
    /\ llm_pc = "start"
    /\ llm_i = 1
    /\ in_flight = {}
    /\ invoked = <<>>
    /\ llm_log = <<>>
    /\ llm_out = NoOutcome
    /\ response = <<>>

LLMIdle ==
    /\ clients = <<>>
    /\ llm_pc = "idle"
    /\ llm_i = 1
    /\ in_flight = {}
    /\ invoked = <<>>
    /\ llm_log = <<>>
    /\ llm_out = NoOutcome
    /\ response = <<>>

\* query() without its empty-list check
QueryStartNoCheck ==
    /\ llm_pc = "start"
    /\ llm_pc' = "loop"
    /\ llm_i' = 1
    /\ UNCHANGED <<clients, in_flight, invoked, llm_log, llm_out, response>>
    /\ UNCHANGED nonLLM

\* query(), up to the for loop: the empty-list check and the messages
QueryStart ==
    /\ llm_pc = "start"
    /\ IF clients = <<>>
       THEN /\ llm_out' = Raised(NO_CLIENTS_MSG)
            /\ llm_pc' = "ended"
       ELSE /\ llm_out' = llm_out
            /\ llm_pc' = "loop"
    /\ llm_i' = 1
    /\ UNCHANGED <<clients, in_flight, invoked, llm_log, response>>
    /\ UNCHANGED nonLLM

\* one iteration starts: client.query(messages) is called under wait_for
QueryCall ==
    /\ llm_pc = "loop"
    /\ llm_i <= Len(clients)
    /\ in_flight' = in_flight \cup {clients[llm_i].id}
    /\ invoked' = Append(invoked, clients[llm_i].id)
    /\ llm_pc' = "await"
    /\ UNCHANGED <<clients, llm_i, llm_log, llm_out, response>>
    /\ UNCHANGED nonLLM

\* query() that does not return on a reply but goes on to the next client
QueryAwaitKeepsGoing ==
    /\ llm_pc = "await"
    /\ in_flight' = in_flight \ {clients[llm_i].id}
    /\ \/ /\ clients[llm_i].outcome = "ok"
          /\ llm_out' = Returned(ReplyOf(clients[llm_i].id))
          /\ UNCHANGED llm_log
       \/ /\ clients[llm_i].outcome = "timeout"
          /\ llm_log' = Append(llm_log, [kind |-> "Timeout", client |-> clients[llm_i].id])
          /\ UNCHANGED llm_out
       \/ /\ clients[llm_i].outcome = "error"
          /\ llm_log' = Append(llm_log, [kind |-> "Error", client |-> clients[llm_i].id])
          /\ UNCHANGED llm_out
    /\ llm_i' = llm_i + 1
    /\ llm_pc' = "loop"
    /\ UNCHANGED <<clients, invoked, response>>
    /\ UNCHANGED nonLLM

\* query() in which a timeout is not caught and ends the call
QueryAwaitTimeoutEnds ==
    /\ llm_pc = "await"
    /\ in_flight' = in_flight \ {clients[llm_i].id}
    /\ \/ /\ clients[llm_i].outcome = "ok"
          /\ llm_out' = Returned(ReplyOf(clients[llm_i].id))
          /\ llm_pc' = "ended"
          /\ UNCHANGED <<llm_i, llm_log>>
       \/ /\ clients[llm_i].outcome = "timeout"
          /\ llm_out' = Raised("TimeoutError")
          /\ llm_pc' = "ended"
          /\ UNCHANGED <<llm_i, llm_log>>
       \/ /\ clients[llm_i].outcome = "error"
          /\ llm_log' = Append(llm_log, [kind |-> "Error", client |-> clients[llm_i].id])
          /\ llm_i' = llm_i + 1
          /\ llm_pc' = "loop"
          /\ UNCHANGED llm_out
    /\ UNCHANGED <<clients, invoked, response>>
    /\ UNCHANGED nonLLM

\* the awaited call ends: a reply is returned at once, a timeout (the call is
\* cancelled by wait_for) or an exception is logged and the loop goes on
QueryAwait ==
    /\ llm_pc = "await"
    /\ in_flight' = in_flight \ {clients[llm_i].id}
    /\ \/ /\ clients[llm_i].outcome = "ok"
          /\ llm_out' = Returned(ReplyOf(clients[llm_i].id))
          /\ llm_pc' = "ended"
          /\ UNCHANGED <<llm_i, llm_log>>
       \/ /\ clients[llm_i].outcome = "timeout"
          /\ llm_log' = Append(llm_log, [kind |-> "Timeout", client |-> clients[llm_i].id])
          /\ llm_i' = llm_i + 1
          /\ llm_pc' = "loop"
          /\ UNCHANGED llm_out
       \/ /\ clients[llm_i].outcome = "error"
          /\ llm_log' = Append(llm_log, [kind |-> "Error", client |-> clients[llm_i].id])
          /\ llm_i' = llm_i + 1
          /\ llm_pc' = "loop"
          /\ UNCHANGED llm_out
    /\ UNCHANGED <<clients, invoked, response>>
    /\ UNCHANGED nonLLM

\* the for loop ran out of clients
QueryExhausted ==
    /\ llm_pc = "loop"
    /\ llm_i > Len(clients)
    /\ llm_out' = Raised(ALL_FAILED_MSG)
    /\ llm_pc' = "ended"
    /\ UNCHANGED <<clients, llm_i, in_flight, invoked, llm_log, response>>
    /\ UNCHANGED nonLLM

\* process_command_logic: the reply is the result, an exception becomes
\* f"Error: {str(e)}"
CommandLogicReturn ==
    /\ llm_pc = "ended"
    /\ response' = IF llm_out.kind = "raise"
                   THEN <<"Error: ">> \o llm_out.val
                   ELSE llm_out.val
    /\ llm_pc' = "done"
    /\ UNCHANGED <<clients, llm_i, in_flight, invoked, llm_log, llm_out>>
    /\ UNCHANGED nonLLM

(***************************************************************************)
(* VoiceProcessor (src/src/voice_processor.py).                            *)
(*                                                                         *)
(* The continuous loop runs on its own thread; its position is l_pc.       *)
(* `frames` is the number of chunks in the list of that name and           *)
(* silence_count is kept in samples (silence_count * rate), so that        *)
(* `silence_count += chunk / rate` adds CHUNK and `silence_count >         *)
(* max_silence` compares with MAX_SILENCE * RATE.  An entry of the queue   *)
(* carries, besides the command, the number of its put() and the           *)
(* transcript it was made from.                                            *)
(***************************************************************************)

RATE == 44100

CHUNK == 1024

MAX_SILENCE == 5

\* the seconds of recent audio handed to the recognizer
WINDOW_SECONDS == 5

\* int(self.rate / self.chunk * 5), the chunks of frames[-...:]
WindowChunks == (RATE * WINDOW_SECONDS) \div CHUNK

\* the number of chunks joined into audio_data when the buffer holds n
AudioChunks(n) == IF n < WindowChunks THEN n ELSE WindowChunks

WAKE_PHRASE == <<"h", "e", "y", " ", "a", "s", "s", "i", "s", "t", "a", "n", "t">>

\* the callers of the /voice_commands endpoint
Pollers == {"p1", "p2"}

\* get_command()'s None
NoCommand == [id |-> 0, cmd |-> <<>>, heard |-> <<>>]

\* if command: neither None nor the empty string
Truthy(entry) == entry # NoCommand /\ entry.cmd # <<>>

\* no poll answered yet
NoAnswer == [kind |-> "none", id |-> 0]

\* return await process_command_logic(command), for the entry with this id
Processed(id) == [kind |-> "processed", id |-> id]

\* return {"result": "No voice command available"}
NO_COMMAND_AVAILABLE == [kind |-> "no_command", id |-> 0]

\* the callers of capture_voice()
Capturers == {"c1", "c2"}

\* the phrase_time_limit arguments, in samples: one chunk's duration, and the
\* default of 5 seconds
PhraseLimits == {CHUNK, 5 * RATE}

\* a capture_voice() call has not returned
NoResult == [kind |-> "pending", val |-> <<>>]

\* capture_voice()'s None
NoneResult == [kind |-> "none", val |-> <<>>]

\* capture_voice()'s transcript
TextResult(t) == [kind |-> "text", val |-> t]

\* "hey assistant" in text.lower(), for a non-empty text
HasWakePhrase(t) == t # <<>> /\ Contains(Lower(t), WAKE_PHRASE)

\* s.replace(old, "", 1)
ReplaceFirst(s, old) ==
    IF Contains(s, old)
    THEN LET i == CHOOSE m \in 1..Len(s) :
                     /\ MatchAt(s, old, m)
                     /\ \A n \in 1..(m - 1) : ~MatchAt(s, old, n)
         IN  SubSeq(s, 1, i - 1) \o SubSeq(s, i + Len(old), Len(s))
    ELSE s

\* the command with only the first occurrence of the phrase removed
CommandOfFirstOnly(t) == Strip(ReplaceFirst(Lower(t), WAKE_PHRASE))

\* text.lower().replace("hey assistant", "").strip()
CommandOf(t) == Strip(Replace(Lower(t), WAKE_PHRASE))

\* the pieces transcripts are made of
PieceWake == <<"H", "e", "y", " ", "A", "s", "s", "i", "s", "t", "a", "n", "t">>

PieceSpace == <<" ">>

PieceWord == <<"M", "a", "i", "l">>

Pieces == {PieceWake, PieceSpace, PieceWord}

RECURSIVE Concatenations(_)
Concatenations(n) ==
    IF n = 0 THEN {<<>>}
    ELSE LET shorter == Concatenations(n - 1)
         IN  shorter \cup {t \o q : t \in shorter, q \in Pieces}

\* every transcript of at most MaxPieces pieces
Transcripts == Concatenations(MaxPieces)

\* a few transcripts: a command after the wake phrase, no wake phrase, the
\* wake phrase alone
SampleTranscripts ==
    {PieceWake \o PieceSpace \o PieceWord, PieceWord, PieceSpace \o PieceWake}

\* transcripts without the wake phrase
PlainTranscripts == {PieceWord}

\* VoiceProcessor.__init__, the continuous loop at pc
VoiceConstructed(pc) ==
    /\ vp_running = TRUE
    /\ vp_lock = "free"
    /\ pa_terminated = FALSE
    /\ command_queue = <<>>
    /\ l_pc = pc
    /\ l_stream = FALSE
    /\ frames = 0
    /\ silence_count = 0
    /\ text = <<>>
    /\ reads = 0
    /\ enqueued = <<>>
    /\ p_pc = [p \in Pollers |-> "idle"]
    /\ p_ret = [p \in Pollers |-> NoCommand]
    /\ popped = <<>>
    /\ stop_pc = "idle"
    /\ c_pc = [c \in Capturers |-> "idle"]
    /\ c_stream = [c \in Capturers |-> FALSE]
    /\ c_frames = [c \in Capturers |-> 0]
    /\ c_limit = [c \in Capturers |-> 0]
    /\ c_ret = [c \in Capturers |-> NoResult]
    /\ c_cause = [c \in Capturers |-> "none"]
    /\ leaked = 0
    /\ p_out = [p \in Pollers |-> NoAnswer]
    /\ dispatched = {}

\* VoiceProcessor(enable_continuous_listening=True): the thread is started
VoiceInit == VoiceConstructed("while")

\* VoiceProcessor(enable_continuous_listening=False): no thread
VoiceNotListening == VoiceConstructed("off")

\* while self.running:
ListenLoopTest ==
    /\ l_pc = "while"
    /\ l_pc' = IF vp_running THEN "lock" ELSE "exit"
    /\ UNCHANGED <<vp_running, vp_lock, pa_terminated, command_queue, l_stream,
                   frames, silence_count, text, reads, enqueued, p_pc, p_ret,
                   popped, stop_pc>>
    /\ UNCHANGED <<micVars, leaked>>
    /\ UNCHANGED pollVars
    /\ UNCHANGED nonVoice

\* with self.lock:
ListenAcquire ==
    /\ l_pc = "lock"
    /\ vp_lock = "free"
    /\ vp_lock' = "listener"
    /\ l_pc' = "open"
    /\ UNCHANGED <<vp_running, pa_terminated, command_queue, l_stream, frames,
                   silence_count, text, reads, enqueued, p_pc, p_ret, popped,
                   stop_pc>>
    /\ UNCHANGED <<micVars, leaked>>
    /\ UNCHANGED pollVars
    /\ UNCHANGED nonVoice

\* stream = self.pyaudio.open(...); frames = []; silence_count = 0.  open()
\* raises on a device error and always once PyAudio is terminated.
ListenOpen ==
    /\ l_pc = "open"
    /\ \/ /\ ~pa_terminated
          /\ l_stream' = TRUE
          /\ frames' = 0
          /\ silence_count' = 0
          /\ l_pc' = "inner"
       \/ /\ l_pc' = "except"
          /\ UNCHANGED <<l_stream, frames, silence_count>>
    /\ UNCHANGED <<vp_running, vp_lock, pa_terminated, command_queue, text, reads,
                   enqueued, p_pc, p_ret, popped, stop_pc>>
    /\ UNCHANGED <<micVars, leaked>>
    /\ UNCHANGED pollVars
    /\ UNCHANGED nonVoice

\* while self.running: (the inner loop); when it ends the stream is closed
ListenInnerTest ==
    /\ l_pc = "inner"
    /\ l_pc' = IF vp_running THEN "read" ELSE "close"
    /\ UNCHANGED <<vp_running, vp_lock, pa_terminated, command_queue, l_stream,
                   frames, silence_count, text, reads, enqueued, p_pc, p_ret,
                   popped, stop_pc>>
    /\ UNCHANGED <<micVars, leaked>>
    /\ UNCHANGED pollVars
    /\ UNCHANGED nonVoice

\* data = stream.read(...); frames.append(data), which leaves n chunks in the
\* buffer and k reads made.  read() raises on a device error and always once
\* PyAudio is terminated.
ListenReadTo(n, k) ==
    /\ l_pc = "read"
    /\ reads' = k
    /\ \/ /\ ~pa_terminated
          /\ frames' = n
          /\ l_pc' = "recognize"
       \/ /\ l_pc' = "except"
          /\ UNCHANGED frames
    /\ UNCHANGED <<vp_running, vp_lock, pa_terminated, command_queue, l_stream,
                   silence_count, text, enqueued, p_pc, p_ret, popped, stop_pc>>
    /\ UNCHANGED <<micVars, leaked>>
    /\ UNCHANGED pollVars
    /\ UNCHANGED nonVoice

\* the read in a run of at most `limit` reads
ListenRead(limit) ==
    /\ reads < limit
    /\ ListenReadTo(frames + 1, reads + 1)

\* the read in a run without end: the reads are not counted, the buffer is
\* counted up to cap chunks (cap stands for cap or more), and a device error
\* occurs only while fewer than MaxLeaked streams have been left open
ListenReadOn(cap) ==
    /\ ListenReadTo(IF frames < cap THEN frames + 1 ELSE cap, reads)
    /\ l_pc' = "except" => (pa_terminated \/ leaked < MaxLeaked)

\* the read in a run of at most `limit` reads on a device that works until
\* PyAudio is terminated
ListenReadSteady(limit) ==
    /\ ListenRead(limit)
    /\ l_pc' = "except" => pa_terminated

\* the read in a run without end on a device that works until PyAudio is
\* terminated
ListenReadOnSteady(cap) ==
    /\ ListenReadTo(IF frames < cap THEN frames + 1 ELSE cap, reads)
    /\ l_pc' = "except" => pa_terminated

\* self.command_queue.put(command)
Put(t) ==
    LET entry == [id |-> Len(enqueued) + 1, cmd |-> CommandOf(t), heard |-> t]
    IN  /\ command_queue' = Append(command_queue, entry)
        /\ enqueued' = Append(enqueued, entry)

\* the iteration without the wake-phrase test: every transcript is queued
ListenRecognizeNoGate(heard) ==
    /\ l_pc = "recognize"
    /\ \/ \E t \in heard :
            /\ text' = t
            /\ Put(t)
            /\ frames' = 0
            /\ silence_count' = 0
            /\ l_pc' = "sleep"
       \/ /\ silence_count' = silence_count + CHUNK
          /\ l_pc' = IF silence_count' > MAX_SILENCE * RATE THEN "close" ELSE "sleep"
          /\ UNCHANGED <<command_queue, enqueued, frames, text>>
    /\ UNCHANGED <<vp_running, vp_lock, pa_terminated, l_stream, reads, p_pc, p_ret,
                   popped, stop_pc>>
    /\ UNCHANGED <<micVars, leaked>>
    /\ UNCHANGED pollVars
    /\ UNCHANGED nonVoice

\* the iteration without line 56: a transcript leaves the silence count as
\* it is
ListenRecognizeKeepsSilence(heard) ==
    /\ l_pc = "recognize"
    /\ \/ \E t \in heard :
            /\ text' = t
            /\ IF HasWakePhrase(t)
               THEN /\ Put(t)
                    /\ frames' = 0
               ELSE UNCHANGED <<command_queue, enqueued, frames>>
            /\ UNCHANGED silence_count
            /\ l_pc' = "sleep"
       \/ /\ silence_count' = silence_count + CHUNK
          /\ l_pc' = IF silence_count' > MAX_SILENCE * RATE THEN "close" ELSE "sleep"
          /\ UNCHANGED <<command_queue, enqueued, frames, text>>
    /\ UNCHANGED <<vp_running, vp_lock, pa_terminated, l_stream, reads, p_pc, p_ret,
                   popped, stop_pc>>
    /\ UNCHANGED <<micVars, leaked>>
    /\ UNCHANGED pollVars
    /\ UNCHANGED nonVoice

\* recognize_google on the recent audio and what follows it in the iteration:
\* a transcript t of `heard` (with the wake phrase: put the command and reset
\* the buffer; in both cases reset the silence count), or UnknownValueError /
\* RequestError (count the silence; break once it exceeds max_silence)
ListenRecognize(heard) ==
    /\ l_pc = "recognize"
    /\ \/ \E t \in heard :
            /\ text' = t
            /\ IF HasWakePhrase(t)
               THEN /\ Put(t)
                    /\ frames' = 0
               ELSE UNCHANGED <<command_queue, enqueued, frames>>
            /\ silence_count' = 0
            /\ l_pc' = "sleep"
       \/ /\ silence_count' = silence_count + CHUNK
          /\ l_pc' = IF silence_count' > MAX_SILENCE * RATE THEN "close" ELSE "sleep"
          /\ UNCHANGED <<command_queue, enqueued, frames, text>>
    /\ UNCHANGED <<vp_running, vp_lock, pa_terminated, l_stream, reads, p_pc, p_ret,
                   popped, stop_pc>>
    /\ UNCHANGED <<micVars, leaked>>
    /\ UNCHANGED pollVars
    /\ UNCHANGED nonVoice

\* time.sleep(self.chunk / self.rate)
ListenSleep ==
    /\ l_pc = "sleep"
    /\ l_pc' = "inner"
    /\ UNCHANGED <<vp_running, vp_lock, pa_terminated, command_queue, l_stream,
                   frames, silence_count, text, reads, enqueued, p_pc, p_ret,
                   popped, stop_pc>>
    /\ UNCHANGED <<micVars, leaked>>
    /\ UNCHANGED pollVars
    /\ UNCHANGED nonVoice

\* stream.stop_stream(); stream.close(); the with block ends.  On a
\* terminated PyAudio stop_stream() raises.
ListenClose ==
    /\ l_pc = "close"
    /\ IF pa_terminated
       THEN /\ l_pc' = "except"
            /\ UNCHANGED <<l_stream, vp_lock>>
       ELSE /\ l_stream' = FALSE
            /\ vp_lock' = "free"
            /\ l_pc' = "while"
    /\ UNCHANGED <<vp_running, pa_terminated, command_queue, frames, silence_count,
                   text, reads, enqueued, p_pc, p_ret, popped, stop_pc>>
    /\ UNCHANGED <<micVars, leaked>>
    /\ UNCHANGED pollVars
    /\ UNCHANGED nonVoice

\* except Exception: logger.error(...); time.sleep(1); the with block ends.
\* The handler does not close the stream: one that was open stays open.
ListenExcept ==
    /\ l_pc = "except"
    /\ IF l_stream
       THEN /\ leaked' = leaked + 1
            /\ l_stream' = FALSE
       ELSE UNCHANGED <<leaked, l_stream>>
    /\ vp_lock' = "free"
    /\ l_pc' = "while"
    /\ UNCHANGED <<vp_running, pa_terminated, command_queue, frames,
                   silence_count, text, reads, enqueued, p_pc, p_ret, popped,
                   stop_pc>>
    /\ UNCHANGED micVars
    /\ UNCHANGED pollVars
    /\ UNCHANGED nonVoice

\* get_command() on a queue that hands out its newest entry
GetCommandLifo(p) ==
    /\ p_pc[p] = "idle"
    /\ IF command_queue = <<>>
       THEN /\ p_ret' = [p_ret EXCEPT ![p] = NoCommand]
            /\ UNCHANGED <<command_queue, popped>>
       ELSE LET newest == command_queue[Len(command_queue)]
            IN  /\ p_ret' = [p_ret EXCEPT ![p] = newest]
                /\ command_queue' = SubSeq(command_queue, 1, Len(command_queue) - 1)
                /\ popped' = Append(popped, [by |-> p, entry |-> newest])
    /\ p_pc' = [p_pc EXCEPT ![p] = "got"]
    /\ UNCHANGED <<vp_running, vp_lock, pa_terminated, l_pc, l_stream, frames,
                   silence_count, text, reads, enqueued, stop_pc>>
    /\ UNCHANGED <<micVars, leaked>>
    /\ UNCHANGED pollVars
    /\ UNCHANGED nonVoice

\* get_command() that reads the oldest entry and leaves it on the queue
GetCommandPeek(p) ==
    /\ p_pc[p] = "idle"
    /\ IF command_queue = <<>>
       THEN /\ p_ret' = [p_ret EXCEPT ![p] = NoCommand]
            /\ UNCHANGED popped
       ELSE /\ p_ret' = [p_ret EXCEPT ![p] = Head(command_queue)]
            /\ popped' = Append(popped, [by |-> p, entry |-> Head(command_queue)])
    /\ p_pc' = [p_pc EXCEPT ![p] = "got"]
    /\ UNCHANGED <<vp_running, vp_lock, pa_terminated, command_queue, l_pc, l_stream,
                   frames, silence_count, text, reads, enqueued, stop_pc>>
    /\ UNCHANGED <<micVars, leaked>>
    /\ UNCHANGED pollVars
    /\ UNCHANGED nonVoice

\* get_command(), called by get_voice_commands for a new request, which has
\* no answer yet: get_nowait() takes the oldest entry, queue.Empty becomes None
GetCommand(p) ==
    /\ p_pc[p] = "idle"
    /\ IF command_queue = <<>>
       THEN /\ p_ret' = [p_ret EXCEPT ![p] = NoCommand]
            /\ UNCHANGED <<command_queue, popped>>
       ELSE /\ p_ret' = [p_ret EXCEPT ![p] = Head(command_queue)]
            /\ command_queue' = Tail(command_queue)
            /\ popped' = Append(popped, [by |-> p, entry |-> Head(command_queue)])
    /\ p_pc' = [p_pc EXCEPT ![p] = "got"]
    /\ UNCHANGED <<vp_running, vp_lock, pa_terminated, l_pc, l_stream, frames,
                   silence_count, text, reads, enqueued, stop_pc>>
    /\ UNCHANGED <<micVars, leaked>>
    /\ p_out' = [p_out EXCEPT ![p] = NoAnswer]
    /\ UNCHANGED dispatched
    /\ UNCHANGED nonVoice

\* get_voice_commands answers its caller: if command: the command goes to
\* process_command_logic, whose result is the answer; otherwise the answer is
\* "No voice command available"
PollRespond(p) ==
    /\ p_pc[p] = "got"
    /\ IF Truthy(p_ret[p])
       THEN /\ p_out' = [p_out EXCEPT ![p] = Processed(p_ret[p].id)]
            /\ dispatched' = dispatched \cup {p_ret[p].id}
       ELSE /\ p_out' = [p_out EXCEPT ![p] = NO_COMMAND_AVAILABLE]
            /\ UNCHANGED dispatched
    /\ p_pc' = [p_pc EXCEPT ![p] = "idle"]
    /\ UNCHANGED <<vp_running, vp_lock, pa_terminated, command_queue, l_pc,
                   l_stream, frames, silence_count, text, reads, enqueued, p_ret,
                   popped, stop_pc>>
    /\ UNCHANGED <<micVars, leaked>>
    /\ UNCHANGED nonVoice

\* stop(): self.running = False
StopFlag ==
    /\ stop_pc = "idle"
    /\ vp_running' = FALSE
    /\ stop_pc' = "flagged"
    /\ UNCHANGED <<vp_lock, pa_terminated, command_queue, l_pc, l_stream, frames,
                   silence_count, text, reads, enqueued, p_pc, p_ret, popped>>
    /\ UNCHANGED <<micVars, leaked>>
    /\ UNCHANGED pollVars
    /\ UNCHANGED nonVoice

\* stop(): self.pyaudio.terminate(), which closes every open stream
StopTerminate ==
    /\ stop_pc = "flagged"
    /\ pa_terminated' = TRUE
    /\ l_stream' = FALSE
    /\ c_stream' = [c \in DOMAIN c_stream |-> FALSE]
    /\ leaked' = 0
    /\ stop_pc' = "idle"
    /\ UNCHANGED <<vp_running, vp_lock, command_queue, l_pc, frames,
                   silence_count, text, reads, enqueued, p_pc, p_ret, popped>>
    /\ UNCHANGED <<c_pc, c_frames, c_limit, c_ret, c_cause>>
    /\ UNCHANGED pollVars
    /\ UNCHANGED nonVoice

\* capture_voice() returns ret, which ends its with block
CaptureReturn(c, ret, cause) ==
    /\ c_ret' = [c_ret EXCEPT ![c] = ret]
    /\ c_cause' = [c_cause EXCEPT ![c] = cause]
    /\ vp_lock' = "free"
    /\ c_pc' = [c_pc EXCEPT ![c] = "done"]

\* a caller enters capture_voice(timeout, phrase_time_limit)
CaptureCall(c) ==
    /\ c_pc[c] = "idle"
    /\ \E lim \in PhraseLimits : c_limit' = [c_limit EXCEPT ![c] = lim]
    /\ c_pc' = [c_pc EXCEPT ![c] = "lock"]
    /\ UNCHANGED <<vp_lock, c_stream, c_frames, c_ret, c_cause, leaked>>
    /\ UNCHANGED nonMic
    /\ UNCHANGED pollVars
    /\ UNCHANGED nonVoice

\* capture_voice(): with self.lock:
CaptureAcquire(c) ==
    /\ c_pc[c] = "lock"
    /\ vp_lock = "free"
    /\ vp_lock' = c
    /\ c_pc' = [c_pc EXCEPT ![c] = "open"]
    /\ UNCHANGED <<c_stream, c_frames, c_limit, c_ret, c_cause, leaked>>
    /\ UNCHANGED nonMic
    /\ UNCHANGED pollVars
    /\ UNCHANGED nonVoice

\* capture_voice(): stream = self.pyaudio.open(...); frames = [].  open()
\* raises on a device error and always once PyAudio is terminated; the
\* exception is caught and None returned.
CaptureOpen(c) ==
    /\ c_pc[c] = "open"
    /\ \/ /\ ~pa_terminated
          /\ c_stream' = [c_stream EXCEPT ![c] = TRUE]
          /\ c_frames' = [c_frames EXCEPT ![c] = 0]
          /\ c_pc' = [c_pc EXCEPT ![c] = "loop"]
          /\ UNCHANGED <<vp_lock, c_ret, c_cause>>
       \/ /\ CaptureReturn(c, NoneResult, "exception")
          /\ UNCHANGED <<c_stream, c_frames>>
    /\ UNCHANGED <<c_limit, leaked>>
    /\ UNCHANGED nonMic
    /\ UNCHANGED pollVars
    /\ UNCHANGED nonVoice

\* capture_voice(): while time.time() - start_time < timeout: the timeout has
\* expired, or it has not, which is the case for at most MaxCaptureReads reads
CaptureLoopTest(c) ==
    /\ c_pc[c] = "loop"
    /\ \/ /\ c_frames[c] < MaxCaptureReads
          /\ c_pc' = [c_pc EXCEPT ![c] = "read"]
       \/ c_pc' = [c_pc EXCEPT ![c] = "close"]
    /\ UNCHANGED <<vp_lock, c_stream, c_frames, c_limit, c_ret, c_cause, leaked>>
    /\ UNCHANGED nonMic
    /\ UNCHANGED pollVars
    /\ UNCHANGED nonVoice

\* capture_voice(): data = stream.read(...); frames.append(data); break once
\* len(frames) * chunk / rate >= phrase_time_limit.  When read() raises the
\* exception is caught and None returned, the stream left as it is.
CaptureRead(c) ==
    /\ c_pc[c] = "read"
    /\ \/ /\ ~pa_terminated
          /\ c_frames' = [c_frames EXCEPT ![c] = c_frames[c] + 1]
          /\ c_pc' = [c_pc EXCEPT ![c] =
                        IF c_frames'[c] * CHUNK >= c_limit[c] THEN "close" ELSE "loop"]
          /\ UNCHANGED <<vp_lock, c_stream, c_ret, c_cause, leaked>>
       \/ /\ pa_terminated \/ leaked < MaxLeaked
          /\ CaptureReturn(c, NoneResult, "exception")
          /\ IF c_stream[c]
             THEN /\ leaked' = leaked + 1
                  /\ c_stream' = [c_stream EXCEPT ![c] = FALSE]
             ELSE UNCHANGED <<leaked, c_stream>>
          /\ UNCHANGED c_frames
    /\ UNCHANGED c_limit
    /\ UNCHANGED nonMic
    /\ UNCHANGED pollVars
    /\ UNCHANGED nonVoice

\* capture_voice(): stream.stop_stream(); stream.close().  On a terminated
\* PyAudio stop_stream() raises; the exception is caught and None returned.
CaptureClose(c) ==
    /\ c_pc[c] = "close"
    /\ IF pa_terminated
       THEN /\ CaptureReturn(c, NoneResult, "exception")
            /\ UNCHANGED c_stream
       ELSE /\ c_stream' = [c_stream EXCEPT ![c] = FALSE]
            /\ c_pc' = [c_pc EXCEPT ![c] = "recognize"]
            /\ UNCHANGED <<vp_lock, c_ret, c_cause>>
    /\ UNCHANGED <<c_frames, c_limit, leaked>>
    /\ UNCHANGED nonMic
    /\ UNCHANGED pollVars
    /\ UNCHANGED nonVoice

\* capture_voice(): text = self.recognizer.recognize_google(audio_data);
\* return text, or None on UnknownValueError and on RequestError
CaptureRecognize(c, heard) ==
    /\ c_pc[c] = "recognize"
    /\ \/ \E t \in heard : CaptureReturn(c, TextResult(t), "transcribed")
       \/ CaptureReturn(c, NoneResult, "unknown_value")
       \/ CaptureReturn(c, NoneResult, "request_error")
    /\ UNCHANGED <<c_stream, c_frames, c_limit, leaked>>
    /\ UNCHANGED nonMic
    /\ UNCHANGED pollVars
    /\ UNCHANGED nonVoice

\* the caller is done with what capture_voice() returned
CaptureUsed(c) ==
    /\ c_pc[c] = "done"
    /\ c_pc' = [c_pc EXCEPT ![c] = "idle"]
    /\ c_ret' = [c_ret EXCEPT ![c] = NoResult]
    /\ c_cause' = [c_cause EXCEPT ![c] = "none"]
    /\ c_frames' = [c_frames EXCEPT ![c] = 0]
    /\ c_limit' = [c_limit EXCEPT ![c] = 0]
    /\ UNCHANGED <<vp_lock, c_stream, leaked>>
    /\ UNCHANGED nonMic
    /\ UNCHANGED pollVars
    /\ UNCHANGED nonVoice


(***************************************************************************)
(* ContextManager (src/src/context_manager.py).                            *)
(*                                                                         *)
(* A frame is the sequence of its uint8 pixels.  The sampler loop runs on  *)
(* its own thread; its position is s_pc.  Its locals gray_img, text and    *)
(* active_app keep their values from one iteration to the next, as Python  *)
(* locals do; made_in records the iteration that assigned each.            *)
(***************************************************************************)
THRESHOLD == 100

NoFrame == <<>>

Frames == {<<0, 0>>, <<8, 8>>, <<16, 16>>, <<255, 255>>}

\* a frame of another shape, as captured after the screen's resolution changed
ResizedFrame == <<0, 0, 0>>

Readers == {"r1", "r2"}

\* the empty dict
EmptyContext == [k \in {} |-> <<>>]

ContextKeys == {"active_app", "screen_content", "is_youtube", "is_pdf", "is_email"}

NoIterations == [img |-> 0, text |-> 0, app |-> 0]

CHROME == <<"c", "h", "r", "o", "m", "e">>

YOUTUBE_WATCH == <<"y", "o", "u", "t", "u", "b", "e", ".", "c", "o", "m", "/", "w", "a", "t", "c", "h">>

ADOBE_ACROBAT == <<"a", "d", "o", "b", "e", " ", "a", "c", "r", "o", "b", "a", "t">>

DOT_PDF == <<".", "p", "d", "f">>

GMAIL == <<"g", "m", "a", "i", "l">>

OUTLOOK == <<"o", "u", "t", "l", "o", "o", "k">>

UNKNOWN_APP == <<"U", "n", "k", "n", "o", "w", "n">>

OCR_FAILED == <<"O", "C", "R", " ", "f", "a", "i", "l", "e", "d">>

NO_TEXT == <<"N", "o", " ", "t", "e", "x", "t", " ", "d", "e", "t", "e", "c", "t", "e", "d">>

\* what pytesseract.image_to_string returns when it returns
OcrOutputs ==
    {<<"Y", "o", "u", "T", "u", "b", "e", ".", "c", "o", "m", "/", "w", "a", "t", "c", "h", "\n">>,
     <<"a", ".", "P", "D", "F">>,
     <<>>}

\* what get_active_app returns: a window title, a process name, "Unknown"
ActiveApps ==
    {<<"G", "o", "o", "g", "l", "e", " ", "C", "h", "r", "o", "m", "e">>,
     <<"O", "u", "t", "l", "o", "o", "k">>,
     UNKNOWN_APP}

\* a value of numpy's int16
Int16(x) == ((x + 32768) % 65536) - 32768

RECURSIVE SumSeq(_)
SumSeq(q) == IF q = <<>> THEN 0 ELSE Head(q) + SumSeq(Tail(q))

\* (new_img.astype(np.int16) - old_img.astype(np.int16)) ** 2, element-wise
SquaredDiff(new_img, old_img) ==
    [i \in DOMAIN new_img |->
        Int16(Int16(new_img[i] - old_img[i]) * Int16(new_img[i] - old_img[i]))]

\* new_img.astype(np.int16) - old_img.astype(np.int16) raises ValueError: the
\* two arrays are of different shapes (neither of a single pixel)
ShapesDiffer(new_img, old_img) ==
    old_img # NoFrame /\ Len(new_img) # Len(old_img)

\* is_screen_changed: np.mean(...) > threshold, for frames of one shape
IsScreenChanged(new_img, old_img) ==
    IF old_img = NoFrame THEN TRUE
    ELSE SumSeq(SquaredDiff(new_img, old_img)) > THRESHOLD * Len(new_img)

\* extract_text's result for the OCR output raw
ExtractedText(raw) == IF raw # <<>> THEN Strip(raw) ELSE NO_TEXT

IsYoutubeVideo(screen_content, app) ==
    Contains(Lower(app), CHROME) /\ Contains(Lower(screen_content), YOUTUBE_WATCH)

IsPdfOpen(screen_content, app) ==
    \/ Contains(Lower(app), ADOBE_ACROBAT)
    \/ Contains(Lower(screen_content), DOT_PDF) /\ Contains(Lower(app), CHROME)

IsEmailOpen(screen_content, app) ==
    Contains(Lower(app), GMAIL) \/ Contains(Lower(app), OUTLOOK)

\* a context dict whose flags were computed for other text and app
ContextWithFlagsOf(txt, app, otxt, oapp) ==
    [active_app     |-> app,
     screen_content |-> txt,
     is_youtube     |-> IsYoutubeVideo(otxt, oapp),
     is_pdf         |-> IsPdfOpen(otxt, oapp),
     is_email       |-> IsEmailOpen(otxt, oapp)]

\* the dict assigned to self.context
NewContext(txt, app) == ContextWithFlagsOf(txt, app, txt, app)

\* a ContextManager that has published nothing, self.running being `running`
\* and the sampler at pc
CtxConstructed(running, pc) ==
    /\ cm_running = running
    /\ cm_lock = "free"
    /\ context = EmptyContext
    /\ last_gray_img = NoFrame
    /\ prev_img = NoFrame
    /\ s_pc = pc
    /\ gray_img = NoFrame
    /\ s_text = <<>>
    /\ active_app = <<>>
    /\ cycle = 0
    /\ made_in = NoIterations
    /\ context_from = NoIterations
    /\ r_pc = [r \in Readers |-> "idle"]
    /\ r_ret = [r \in Readers |-> EmptyContext]
    /\ r_from = [r \in Readers |-> NoIterations]

\* ContextManager.__init__
CtxInit == CtxConstructed(TRUE, "while")

\* stop() was called before the sampler's first loop test, and the thread is
\* gone
CtxExited == CtxConstructed(FALSE, "exit")

\* the loop that does not look at self.running
SamplerLoopTestIgnoresStop(limit) ==
    /\ s_pc = "while"
    /\ cycle < limit
    /\ cycle' = cycle + 1
    /\ s_pc' = "capture"
    /\ UNCHANGED <<cm_running, cm_lock, context, last_gray_img, gray_img, s_text,
                   active_app, made_in, context_from, r_pc, r_ret, r_from>>
    /\ UNCHANGED prev_img
    /\ UNCHANGED nonCtx

\* while self.running: in a run of at most `limit` iterations
SamplerLoopTestTo(limit) ==
    /\ s_pc = "while"
    /\ IF cm_running
       THEN /\ cycle < limit
            /\ cycle' = cycle + 1
            /\ s_pc' = "capture"
       ELSE /\ s_pc' = "exit"
            /\ UNCHANGED cycle
    /\ UNCHANGED <<cm_running, cm_lock, context, last_gray_img, gray_img, s_text,
                   active_app, made_in, context_from, r_pc, r_ret, r_from>>
    /\ UNCHANGED prev_img
    /\ UNCHANGED nonCtx

\* while self.running:
SamplerLoopTest == SamplerLoopTestTo(MaxCycles)

\* the change check that is always passed
SamplerCheckAlwaysChanged ==
    /\ s_pc = "check"
    /\ s_pc' = "extract"
    /\ UNCHANGED <<cm_running, cm_lock, context, last_gray_img, gray_img, s_text,
                   active_app, cycle, made_in, context_from, r_pc, r_ret, r_from>>
    /\ UNCHANGED prev_img
    /\ UNCHANGED nonCtx

\* the capture whose failure is not tested: the cycle goes on to the lock
\* with no frame
SamplerCaptureNoSkip(shown) ==
    /\ s_pc = "capture"
    /\ \/ \E f \in shown : gray_img' = f
       \/ gray_img' = NoFrame
    /\ s_pc' = "lock"
    /\ made_in' = [made_in EXCEPT !.img = cycle]
    /\ UNCHANGED <<cm_running, cm_lock, context, last_gray_img, s_text, active_app,
                   cycle, context_from, r_pc, r_ret, r_from>>
    /\ prev_img' = gray_img
    /\ UNCHANGED nonCtx

\* gray_img = self.capture_screen(): a frame of `shown`, or None when the
\* capture fails; if gray_img is not None: with self.lock is entered next
SamplerCaptureOf(shown) ==
    /\ s_pc = "capture"
    /\ \/ /\ \E f \in shown : gray_img' = f
          /\ s_pc' = "lock"
       \/ /\ gray_img' = NoFrame
          /\ s_pc' = "sleep"
    /\ made_in' = [made_in EXCEPT !.img = cycle]
    /\ UNCHANGED <<cm_running, cm_lock, context, last_gray_img, s_text, active_app,
                   cycle, context_from, r_pc, r_ret, r_from>>
    /\ prev_img' = gray_img
    /\ UNCHANGED nonCtx

\* the capture of a screen that keeps its resolution
SamplerCapture == SamplerCaptureOf(Frames)

\* with self.lock:
SamplerAcquire ==
    /\ s_pc = "lock"
    /\ cm_lock = "free"
    /\ cm_lock' = "sampler"
    /\ s_pc' = "check"
    /\ UNCHANGED <<cm_running, context, last_gray_img, gray_img, s_text,
                   active_app, cycle, made_in, context_from, r_pc, r_ret, r_from>>
    /\ UNCHANGED prev_img
    /\ UNCHANGED nonCtx

\* the change check that keeps the lock when the screen has not changed
SamplerCheckKeepsLock ==
    /\ s_pc = "check"
    /\ s_pc' = IF IsScreenChanged(gray_img, last_gray_img) THEN "extract" ELSE "sleep"
    /\ UNCHANGED <<cm_running, cm_lock, context, last_gray_img, gray_img, s_text,
                   active_app, cycle, made_in, context_from, r_pc, r_ret, r_from>>
    /\ UNCHANGED prev_img
    /\ UNCHANGED nonCtx

\* if self.is_screen_changed(gray_img, self.last_gray_img): when it has not
\* changed the with block ends.  When the subtraction raises, the exception
\* leaves the with block and, nothing catching it, ends the thread.
SamplerCheck ==
    /\ s_pc = "check"
    /\ IF ShapesDiffer(gray_img, last_gray_img)
       THEN /\ s_pc' = "dead"
            /\ cm_lock' = "free"
       ELSE IF IsScreenChanged(gray_img, last_gray_img)
       THEN /\ s_pc' = "extract"
            /\ UNCHANGED cm_lock
       ELSE /\ s_pc' = "sleep"
            /\ cm_lock' = "free"
    /\ UNCHANGED <<cm_running, context, last_gray_img, gray_img, s_text, active_app,
                   cycle, made_in, context_from, r_pc, r_ret, r_from>>
    /\ UNCHANGED prev_img
    /\ UNCHANGED nonCtx

\* processed_img = self.preprocess_image(gray_img);
\* text = self.extract_text(processed_img): the stripped OCR output, "No text
\* detected" for an empty one, "OCR failed" when the OCR raises
SamplerExtract ==
    /\ s_pc = "extract"
    /\ \/ \E raw \in OcrOutputs : s_text' = ExtractedText(raw)
       \/ s_text' = OCR_FAILED
    /\ made_in' = [made_in EXCEPT !.text = cycle]
    /\ s_pc' = "active_app"
    /\ UNCHANGED <<cm_running, cm_lock, context, last_gray_img, gray_img, active_app,
                   cycle, context_from, r_pc, r_ret, r_from>>
    /\ UNCHANGED prev_img
    /\ UNCHANGED nonCtx

\* active_app = self.get_active_app()
SamplerActiveApp ==
    /\ s_pc = "active_app"
    /\ \E a \in ActiveApps : active_app' = a
    /\ made_in' = [made_in EXCEPT !.app = cycle]
    /\ s_pc' = "publish"
    /\ UNCHANGED <<cm_running, cm_lock, context, last_gray_img, gray_img, s_text,
                   cycle, context_from, r_pc, r_ret, r_from>>
    /\ UNCHANGED prev_img
    /\ UNCHANGED nonCtx

\* the publication that keeps the flags of the snapshot it replaces
SamplerPublishStaleFlags ==
    /\ s_pc = "publish"
    /\ context' = IF context = EmptyContext
                  THEN NewContext(s_text, active_app)
                  ELSE ContextWithFlagsOf(s_text, active_app,
                                          context.screen_content, context.active_app)
    /\ context_from' = made_in
    /\ s_pc' = "baseline"
    /\ UNCHANGED <<cm_running, cm_lock, last_gray_img, gray_img, s_text, active_app,
                   cycle, made_in, r_pc, r_ret, r_from>>
    /\ UNCHANGED prev_img
    /\ UNCHANGED nonCtx

\* the publication that clears the snapshot when the OCR failed
SamplerPublishDropsFailedOcr ==
    /\ s_pc = "publish"
    /\ context' = IF s_text = OCR_FAILED
                  THEN EmptyContext
                  ELSE NewContext(s_text, active_app)
    /\ context_from' = made_in
    /\ s_pc' = "baseline"
    /\ UNCHANGED <<cm_running, cm_lock, last_gray_img, gray_img, s_text, active_app,
                   cycle, made_in, r_pc, r_ret, r_from>>
    /\ UNCHANGED prev_img
    /\ UNCHANGED nonCtx

\* self.context = {...}: the flags are computed, then the dict is assigned
SamplerPublish ==
    /\ s_pc = "publish"
    /\ context' = NewContext(s_text, active_app)
    /\ context_from' = made_in
    /\ s_pc' = "baseline"
    /\ UNCHANGED <<cm_running, cm_lock, last_gray_img, gray_img, s_text, active_app,
                   cycle, made_in, r_pc, r_ret, r_from>>
    /\ UNCHANGED prev_img
    /\ UNCHANGED nonCtx

\* the end of the critical section that keeps the old baseline when the OCR
\* failed
SamplerBaselineSkipsFailedOcr ==
    /\ s_pc = "baseline"
    /\ last_gray_img' = IF s_text = OCR_FAILED THEN last_gray_img ELSE gray_img
    /\ cm_lock' = "free"
    /\ s_pc' = "sleep"
    /\ UNCHANGED <<cm_running, context, gray_img, s_text, active_app, cycle, made_in,
                   context_from, r_pc, r_ret, r_from>>
    /\ UNCHANGED prev_img
    /\ UNCHANGED nonCtx

\* self.last_gray_img = gray_img.copy(); the with block ends
SamplerBaseline ==
    /\ s_pc = "baseline"
    /\ last_gray_img' = gray_img
    /\ cm_lock' = "free"
    /\ s_pc' = "sleep"
    /\ UNCHANGED <<cm_running, context, gray_img, s_text, active_app, cycle, made_in,
                   context_from, r_pc, r_ret, r_from>>
    /\ UNCHANGED prev_img
    /\ UNCHANGED nonCtx

\* time.sleep(5)
SamplerSleep ==
    /\ s_pc = "sleep"
    /\ s_pc' = "while"
    /\ UNCHANGED <<cm_running, cm_lock, context, last_gray_img, gray_img, s_text,
                   active_app, cycle, made_in, context_from, r_pc, r_ret, r_from>>
    /\ UNCHANGED prev_img
    /\ UNCHANGED nonCtx

\* a caller enters get_context()
GetContextCall(r) ==
    /\ r_pc[r] = "idle"
    /\ r_pc' = [r_pc EXCEPT ![r] = "lock"]
    /\ UNCHANGED <<cm_running, cm_lock, context, last_gray_img, s_pc, gray_img,
                   s_text, active_app, cycle, made_in, context_from, r_ret, r_from>>
    /\ UNCHANGED prev_img
    /\ UNCHANGED nonCtx

\* get_context(): with self.lock:
GetContextAcquire(r) ==
    /\ r_pc[r] = "lock"
    /\ cm_lock = "free"
    /\ cm_lock' = r
    /\ r_pc' = [r_pc EXCEPT ![r] = "copy"]
    /\ UNCHANGED <<cm_running, context, last_gray_img, s_pc, gray_img, s_text,
                   active_app, cycle, made_in, context_from, r_ret, r_from>>
    /\ UNCHANGED prev_img
    /\ UNCHANGED nonCtx

\* get_context(): return self.context.copy() if self.context else {}; the
\* with block ends
GetContextReturn(r) ==
    /\ r_pc[r] = "copy"
    /\ r_ret' = [r_ret EXCEPT
                   ![r] = IF DOMAIN context # {} THEN context ELSE EmptyContext]
    /\ r_from' = [r_from EXCEPT ![r] = context_from]
    /\ cm_lock' = "free"
    /\ r_pc' = [r_pc EXCEPT ![r] = "done"]
    /\ UNCHANGED <<cm_running, context, last_gray_img, s_pc, gray_img, s_text,
                   active_app, cycle, made_in, context_from>>
    /\ UNCHANGED prev_img
    /\ UNCHANGED nonCtx

\* the caller is done with the copy it got
ContextUsed(r) ==
    /\ r_pc[r] = "done"
    /\ r_pc' = [r_pc EXCEPT ![r] = "idle"]
    /\ r_ret' = [r_ret EXCEPT ![r] = EmptyContext]
    /\ r_from' = [r_from EXCEPT ![r] = NoIterations]
    /\ UNCHANGED <<cm_running, cm_lock, context, last_gray_img, s_pc, gray_img,
                   s_text, active_app, cycle, made_in, context_from>>
    /\ UNCHANGED prev_img
    /\ UNCHANGED nonCtx

\* ContextManager.stop(): self.running = False
CtxStop ==
    /\ cm_running' = FALSE
    /\ UNCHANGED <<cm_lock, context, last_gray_img, s_pc, gray_img, s_text,
                   active_app, cycle, made_in, context_from, r_pc, r_ret, r_from>>
    /\ UNCHANGED prev_img
    /\ UNCHANGED nonCtx

(***************************************************************************)
(* Specifications.                                                         *)
(***************************************************************************)
\* one query() call on every backend list and outcome assignment
InitLLM == LLMInit /\ VoiceInit /\ CtxInit

NextLLM ==
    \/ QueryStart
    \/ QueryCall
    \/ QueryAwait
    \/ QueryExhausted
    \/ CommandLogicReturn

SpecLLM == InitLLM /\ [][NextLLM]_vars

\* the continuous loop alone, hearing every transcript of Transcripts
InitWake == VoiceInit /\ LLMIdle /\ CtxInit

NextWake ==
    \/ ListenLoopTest
    \/ ListenAcquire
    \/ ListenOpen
    \/ ListenInnerTest
    \/ ListenRead(WakeReads)
    \/ ListenRecognize(Transcripts)
    \/ ListenSleep
    \/ ListenClose
    \/ ListenExcept
    \/ StopFlag
    \/ StopTerminate

SpecWake == InitWake /\ [][NextWake]_vars

\* the continuous loop, the pollers of /voice_commands and stop()
InitVoice == VoiceInit /\ LLMIdle /\ CtxInit

NextVoice ==
    \/ ListenLoopTest
    \/ ListenAcquire
    \/ ListenOpen
    \/ ListenInnerTest
    \/ ListenRead(MaxReads)
    \/ ListenRecognize(SampleTranscripts)
    \/ ListenSleep
    \/ ListenClose
    \/ ListenExcept
    \/ \E p \in Pollers : GetCommand(p)
    \/ \E p \in Pollers : PollRespond(p)
    \/ StopFlag
    \/ StopTerminate

SpecVoice == InitVoice /\ [][NextVoice]_vars

\* the continuous loop, the callers of capture_voice() and stop()
InitMic == VoiceInit /\ LLMIdle /\ CtxInit

NextMic ==
    \/ ListenLoopTest
    \/ ListenAcquire
    \/ ListenOpen
    \/ ListenInnerTest
    \/ ListenRead(MaxReads)
    \/ ListenRecognize(PlainTranscripts)
    \/ ListenSleep
    \/ ListenClose
    \/ ListenExcept
    \/ \E c \in Capturers : CaptureCall(c)
    \/ \E c \in Capturers : CaptureAcquire(c)
    \/ \E c \in Capturers : CaptureOpen(c)
    \/ \E c \in Capturers : CaptureLoopTest(c)
    \/ \E c \in Capturers : CaptureRead(c)
    \/ \E c \in Capturers : CaptureClose(c)
    \/ \E c \in Capturers : CaptureRecognize(c, PlainTranscripts)
    \/ \E c \in Capturers : CaptureUsed(c)
    \/ StopFlag
    \/ StopTerminate

SpecMic == InitMic /\ [][NextMic]_vars

\* the two background loops and their stop(), each loop seen on its own: the
\* sampler next to a VoiceProcessor that does not listen, or the continuous
\* loop next to a ContextManager whose sampler is gone.  Every thread that can
\* take a step takes one in the end, and a stop() that was begun is finished.
\* The microphone works until PyAudio is terminated.
InitStop ==
    /\ LLMIdle
    /\ \/ CtxInit /\ VoiceNotListening
       \/ CtxExited /\ VoiceInit

SamplerStep ==
    \/ SamplerLoopTestTo(StopCycles)
    \/ SamplerCapture
    \/ SamplerAcquire
    \/ SamplerCheck
    \/ SamplerExtract
    \/ SamplerActiveApp
    \/ SamplerPublish
    \/ SamplerBaseline
    \/ SamplerSleep

ListenStep ==
    \/ ListenLoopTest
    \/ ListenAcquire
    \/ ListenOpen
    \/ ListenInnerTest
    \/ ListenReadOn(MaxBuffered)
    \/ ListenRecognize(PlainTranscripts)
    \/ ListenSleep
    \/ ListenClose
    \/ ListenExcept

\* the loop's steps on a device that works until PyAudio is terminated
ListenSteadyStep ==
    \/ ListenLoopTest
    \/ ListenAcquire
    \/ ListenOpen
    \/ ListenInnerTest
    \/ ListenReadOnSteady(MaxBuffered)
    \/ ListenRecognize(PlainTranscripts)
    \/ ListenSleep
    \/ ListenClose
    \/ ListenExcept

NextStop ==
    \/ SamplerLoopTestTo(StopCycles)
    \/ SamplerCapture
    \/ SamplerAcquire
    \/ SamplerCheck
    \/ SamplerExtract
    \/ SamplerActiveApp
    \/ SamplerPublish
    \/ SamplerBaseline
    \/ SamplerSleep
    \/ CtxStop
    \/ ListenLoopTest
    \/ ListenAcquire
    \/ ListenOpen
    \/ ListenInnerTest
    \/ ListenReadOnSteady(MaxBuffered)
    \/ ListenRecognize(PlainTranscripts)
    \/ ListenSleep
    \/ ListenClose
    \/ ListenExcept
    \/ StopFlag
    \/ StopTerminate

SpecStop ==
    /\ InitStop
    /\ [][NextStop]_vars
    /\ WF_vars(SamplerStep)
    /\ WF_vars(ListenSteadyStep)
    /\ WF_vars(StopTerminate)

\* the continuous loop running without end next to one caller of
\* capture_voice().  Every thread that can take a step takes one in the end, a
\* thread that finds the lock free again and again gets it in the end, and a
\* stop() that was begun is finished; what the recognizer answers, and whether
\* capture_voice() or stop() is called at all, is not constrained.
InitListen == VoiceInit /\ LLMIdle /\ CtxExited

\* the steps of a capture_voice() call once it holds the lock
CaptureStep(c) ==
    \/ CaptureOpen(c)
    \/ CaptureLoopTest(c)
    \/ CaptureRead(c)
    \/ CaptureClose(c)
    \/ CaptureRecognize(c, PlainTranscripts)

NextListen ==
    \/ ListenLoopTest
    \/ ListenAcquire
    \/ ListenOpen
    \/ ListenInnerTest
    \/ ListenReadOn(MaxBuffered)
    \/ ListenRecognize(PlainTranscripts)
    \/ ListenSleep
    \/ ListenClose
    \/ ListenExcept
    \/ CaptureCall("c1")
    \/ CaptureAcquire("c1")
    \/ CaptureOpen("c1")
    \/ CaptureLoopTest("c1")
    \/ CaptureRead("c1")
    \/ CaptureClose("c1")
    \/ CaptureRecognize("c1", PlainTranscripts)
    \/ CaptureUsed("c1")
    \/ StopFlag
    \/ StopTerminate

SpecListen ==
    /\ InitListen
    /\ [][NextListen]_vars
    /\ WF_vars(ListenStep)
    /\ SF_vars(ListenAcquire)
    /\ WF_vars(CaptureStep("c1"))
    /\ SF_vars(CaptureAcquire("c1"))
    /\ WF_vars(StopTerminate)

\* the continuous loop and stop(), over reads enough to fill the window
InitBuffer == VoiceInit /\ LLMIdle /\ CtxExited

NextBuffer ==
    \/ ListenLoopTest
    \/ ListenAcquire
    \/ ListenOpen
    \/ ListenInnerTest
    \/ ListenReadSteady(BufferReads)
    \/ ListenRecognize(PlainTranscripts)
    \/ ListenSleep
    \/ ListenClose
    \/ ListenExcept
    \/ StopFlag
    \/ StopTerminate

SpecBuffer == InitBuffer /\ [][NextBuffer]_vars

\* the screen sampler and stop(), over longer sequences of frames
InitChange == CtxInit /\ LLMIdle /\ VoiceNotListening

NextChange ==
    \/ SamplerLoopTestTo(ChangeCycles)
    \/ SamplerCaptureOf(Frames \cup {ResizedFrame})
    \/ SamplerAcquire
    \/ SamplerCheck
    \/ SamplerExtract
    \/ SamplerActiveApp
    \/ SamplerPublish
    \/ SamplerBaseline
    \/ SamplerSleep
    \/ CtxStop

SpecChange == InitChange /\ [][NextChange]_vars

\* the screen sampler, the callers of get_context() and stop()
InitCtx == CtxInit /\ LLMIdle /\ VoiceInit

NextCtx ==
    \/ SamplerLoopTest
    \/ SamplerCapture
    \/ SamplerAcquire
    \/ SamplerCheck
    \/ SamplerExtract
    \/ SamplerActiveApp
    \/ SamplerPublish
    \/ SamplerBaseline
    \/ SamplerSleep
    \/ \E r \in Readers : GetContextCall(r)
    \/ \E r \in Readers : GetContextAcquire(r)
    \/ \E r \in Readers : GetContextReturn(r)
    \/ \E r \in Readers : ContextUsed(r)
    \/ CtxStop

SpecCtx == InitCtx /\ [][NextCtx]_vars

(***************************************************************************)
(* Claims about LLMManager.query.                                          *)
(***************************************************************************)
LLMEnded == llm_pc \in {"ended", "done"}

OkClients == {i \in DOMAIN clients : clients[i].outcome = "ok"}

FirstOk == CHOOSE i \in OkClients : \A j \in OkClients : i <= j

FailureEntry(i) ==
    [kind   |-> IF clients[i].outcome = "timeout" THEN "Timeout" ELSE "Error",
     client |-> clients[i].id]

\* C1: with a non-empty backend list the backends are called in list order,
\* one at a time: the k-th call is on the k-th client of the list, it starts
\* only after every earlier attempt has ended in a logged failure or timeout,
\* no client after a successful one is called, and at most one call (the
\* latest) is in flight.
C1_OrderedOneAtATime ==
    clients # <<>> =>
        /\ Cardinality(in_flight) <= 1
        /\ in_flight # {} => in_flight = {invoked[Len(invoked)]}
        /\ Len(invoked) <= Len(clients)
        /\ \A k \in DOMAIN invoked :
              /\ invoked[k] = clients[k].id
              /\ \A j \in 1..(k - 1) :
                    /\ clients[j].outcome # "ok"
                    /\ j <= Len(llm_log)
                    /\ llm_log[j].client = clients[j].id

C1_Witness ==
    /\ llm_pc = "done"
    /\ Len(clients) = 3
    /\ clients[1].outcome = "timeout"
    /\ clients[2].outcome = "ok"
    /\ invoked = <<1, 2>>
    /\ in_flight = {}

\* C2: when at least one backend succeeds, query() returns the reply of the
\* first backend of the list that succeeds, and the log holds exactly one
\* failure entry for each backend before it (a timeout like an error), in
\* list order, and no other entry.
C2_FirstSuccessWins ==
    (LLMEnded /\ OkClients # {}) =>
        /\ llm_out = Returned(ReplyOf(clients[FirstOk].id))
        /\ llm_log = [k \in 1..(FirstOk - 1) |-> FailureEntry(k)]
        /\ llm_pc = "done" => response = ReplyOf(clients[FirstOk].id)

C2_Witness ==
    /\ llm_pc = "done"
    /\ Len(clients) = 3
    /\ clients[1].outcome = "timeout"
    /\ clients[2].outcome = "error"
    /\ clients[3].outcome = "ok"
    /\ llm_out = Returned(ReplyOf(3))
    /\ Len(llm_log) = 2

\* C3: query() ends in failure in exactly two ways, which differ: with an
\* empty list it raises the configuration error without calling a backend;
\* with a non-empty list whose backends all fail or time out it raises "all
\* failed" after having called every backend exactly once, in order.  No
\* other exception (no timeout) leaves query(), and the caller's response
\* tells the two apart.
C3_TerminalFailures ==
    LLMEnded =>
        /\ llm_out = Raised(NO_CLIENTS_MSG) <=> clients = <<>>
        /\ llm_out = Raised(NO_CLIENTS_MSG) => invoked = <<>>
        /\ llm_out = Raised(ALL_FAILED_MSG) <=> (clients # <<>> /\ OkClients = {})
        /\ llm_out = Raised(ALL_FAILED_MSG) =>
              invoked = [k \in DOMAIN clients |-> clients[k].id]
        /\ llm_out.kind = "raise" =>
              llm_out \in {Raised(NO_CLIENTS_MSG), Raised(ALL_FAILED_MSG)}
        /\ llm_pc = "done" =>
              /\ response = <<"Error: ", NO_CLIENTS_MSG>> <=> clients = <<>>
              /\ response = <<"Error: ", ALL_FAILED_MSG>> <=>
                    (clients # <<>> /\ OkClients = {})

C3_Witness ==
    /\ llm_pc = "done"
    /\ Len(clients) = 2
    /\ clients[1].outcome = "error"
    /\ clients[2].outcome = "timeout"
    /\ response = <<"Error: ", ALL_FAILED_MSG>>
    /\ invoked = <<1, 2>>

(***************************************************************************)
(* Claims about the continuous loop and the command queue.                 *)
(***************************************************************************)
\* the places where the wake phrase occurs in s
WakeStarts(s) == {i \in 1..Len(s) : MatchAt(s, WAKE_PHRASE, i)}

\* the characters of s at the places in keep, from place i on, in order
RECURSIVE Restricted(_, _, _)
Restricted(s, keep, i) ==
    IF i > Len(s) THEN <<>>
    ELSE (IF i \in keep THEN <<s[i]>> ELSE <<>>) \o Restricted(s, keep, i + 1)

\* the characters of s outside every occurrence of the wake phrase
OutsideWake(s) ==
    LET starts == WakeStarts(s)
        keep == {i \in DOMAIN s :
                    ~\E m \in starts : m <= i /\ i < m + Len(WAKE_PHRASE)}
    IN  Restricted(s, keep, 1)

\* s with the one occurrence of the wake phrase at i taken out, case kept
WithoutOccurrenceAt(s, i) ==
    SubSeq(s, 1, i - 1) \o SubSeq(s, i + Len(WAKE_PHRASE), Len(s))

\* C4 as stated: the queued command is the transcript with exactly one
\* occurrence of the wake phrase (matched case-insensitively) removed and the
\* whitespace at both ends trimmed, the rest of the transcript kept as it is.
C4_OneOccurrenceRemoved ==
    \A k \in DOMAIN enqueued :
        \E i \in WakeStarts(Lower(enqueued[k].heard)) :
            enqueued[k].cmd = Strip(WithoutOccurrenceAt(enqueued[k].heard, i))

\* C4 as amended: the queued command is the lower-cased transcript with
\* every occurrence of the wake phrase removed and the whitespace at both
\* ends trimmed.
C4_EveryOccurrenceRemovedLowered ==
    \A k \in DOMAIN enqueued :
        /\ WakeStarts(Lower(enqueued[k].heard)) # {}
        /\ enqueued[k].cmd = Strip(OutsideWake(Lower(enqueued[k].heard)))

C4_Witness ==
    /\ l_pc = "sleep"
    /\ text = PieceWake \o PieceWord \o PieceWake
    /\ Len(command_queue) = 1
    /\ command_queue[1].heard = text
    /\ command_queue[1].cmd = <<"m", "a", "i", "l">>

QueueGains == Len(command_queue') > Len(command_queue)

\* a step of the loop that ends an iteration's recognition without a
\* transcript that has the wake phrase
RecognizedNoWake ==
    /\ l_pc = "recognize"
    /\ l_pc' # "recognize"
    /\ silence_count' > silence_count \/ ~HasWakePhrase(text')

\* C5: the queue gains an entry only in the loop's recognition step, when the
\* transcript just produced has the wake phrase; that step appends one entry
\* and empties the audio buffer.  A recognition step with a transcript without
\* the phrase, or with a failed transcription, leaves the queue as it is, and
\* every other change of the queue is the removal of its oldest entry.
C5_EnqueueOnlyOnWake ==
    [][/\ QueueGains =>
            /\ l_pc = "recognize"
            /\ HasWakePhrase(text')
            /\ Len(command_queue') = Len(command_queue) + 1
            /\ SubSeq(command_queue', 1, Len(command_queue)) = command_queue
            /\ command_queue'[Len(command_queue')].heard = text'
            /\ frames' = 0
       /\ RecognizedNoWake => command_queue' = command_queue
       /\ command_queue' # command_queue =>
            QueueGains \/ command_queue' = Tail(command_queue)]_vars

C5_Witness ==
    /\ l_pc = "sleep"
    /\ reads = 2
    /\ text = PieceWord
    /\ Len(enqueued) = 1
    /\ enqueued[1].heard = PieceWake \o PieceSpace \o PieceWord
    /\ frames = 1

PoppedEntries == [k \in DOMAIN popped |-> popped[k].entry]

\* C6: the queue is first-in first-out: the entries get_command() has
\* returned, in the order returned, followed by the entries still queued, are
\* the entries put, in put() order.  get_command() is never made to wait, it
\* returns None exactly when the queue is empty and the oldest entry
\* otherwise.
C6_Fifo ==
    /\ [](/\ enqueued = PoppedEntries \o command_queue
          /\ \A p \in Pollers : p_pc[p] = "idle" => ENABLED GetCommand(p))
    /\ [][\A p \in Pollers :
            (p_pc[p] = "idle" /\ p_pc'[p] = "got") =>
                /\ p_ret'[p] = NoCommand <=> command_queue = <<>>
                /\ command_queue # <<>> => p_ret'[p] = Head(command_queue)]_vars

C6_Witness ==
    /\ Len(popped) = 2
    /\ popped[1].entry.id = 1
    /\ popped[2].entry.id = 2
    /\ command_queue = <<>>
    /\ \E p \in Pollers : p_pc[p] = "got" /\ p_ret[p] = NoCommand

\* C7: delivery is at most once, also with get_command() calls overlapping
\* each other and the loop's put(): no entry is returned twice (to the same
\* caller or to two), an entry that was returned is no longer on the queue,
\* and two polls that hold a command at the same time hold different entries.
C7_AtMostOnce ==
    /\ \A i, j \in DOMAIN popped :
          i # j => popped[i].entry.id # popped[j].entry.id
    /\ \A i \in DOMAIN popped : \A k \in DOMAIN command_queue :
          command_queue[k].id # popped[i].entry.id
    /\ \A p, q \in Pollers :
          (p # q /\ p_pc[p] = "got" /\ p_pc[q] = "got" /\ p_ret[p] # NoCommand
               /\ p_ret[q] # NoCommand)
              => p_ret[p].id # p_ret[q].id

C7_Witness ==
    /\ p_pc["p1"] = "got"
    /\ p_pc["p2"] = "got"
    /\ p_ret["p1"] # NoCommand
    /\ p_ret["p2"] # NoCommand
    /\ l_pc = "recognize"

(***************************************************************************)
(* Claims about ContextManager.                                            *)
(***************************************************************************)
\* the positions of the sampler between taking self.lock and releasing it
LockedPhases == {"check", "extract", "active_app", "publish", "baseline"}

GetContextReturns(r) == r_pc[r] = "copy" /\ r_pc'[r] = "done"

C9_WholeSnapshot ==
    \A r \in Readers :
        (r_pc[r] = "done" /\ r_ret[r] # EmptyContext) =>
            /\ r_from[r].img >= 1
            /\ r_from[r].text = r_from[r].img
            /\ r_from[r].app = r_from[r].img
            /\ r_ret[r].is_youtube =
                  IsYoutubeVideo(r_ret[r].screen_content, r_ret[r].active_app)
            /\ r_ret[r].is_pdf =
                  IsPdfOpen(r_ret[r].screen_content, r_ret[r].active_app)
            /\ r_ret[r].is_email =
                  IsEmailOpen(r_ret[r].screen_content, r_ret[r].active_app)

C9_Witness ==
    /\ r_pc["r1"] = "done"
    /\ r_pc["r2"] = "done"
    /\ r_from["r1"].img = 1
    /\ r_from["r2"].img = 2
    /\ r_ret["r1"].is_youtube
    /\ r_ret["r2"].is_email
    /\ r_ret["r1"].screen_content # r_ret["r2"].screen_content

\* C10: get_context() always returns, and what it returns is the empty dict
\* or a dict with all five keys; it is the empty dict exactly when no cycle
\* has published yet, and once a cycle has published self.context is never
\* empty again.
C10_EmptyOnlyBeforeFirstPublish ==
    /\ [](\A r \in Readers :
            /\ r_pc[r] = "done" => DOMAIN r_ret[r] \in {{}, ContextKeys}
            /\ r_pc[r] = "copy" => ENABLED GetContextReturn(r))
    /\ [][/\ \A r \in Readers :
               GetContextReturns(r) =>
                   (r_ret'[r] = EmptyContext <=> context_from = NoIterations)
          /\ context_from # NoIterations =>
               (context_from' # NoIterations /\ context' # EmptyContext)]_vars

C10_Witness ==
    /\ r_pc["r1"] = "done"
    /\ r_ret["r1"] = EmptyContext
    /\ r_pc["r2"] = "done"
    /\ DOMAIN r_ret["r2"] = ContextKeys
    /\ r_ret["r2"].screen_content = OCR_FAILED

\* C11 as stated: stop() can be called any number of times, each call leaves
\* self.running false and nothing sets it back to true; and once stop() has
\* returned, neither the published snapshot nor the baseline frame is
\* assigned again, wherever in its cycle the sampler was.
C11_NothingPublishedAfterStop ==
    /\ [](ENABLED CtxStop)
    /\ [][/\ ~cm_running => ~cm_running'
          /\ ~cm_running => (context' = context /\ last_gray_img' = last_gray_img)]_vars

\* stop() has returned and the sampler, which was past its loop test, is
\* about to assign the baseline frame of the snapshot it has just published
C11_Witness ==
    /\ ~cm_running
    /\ s_pc = "baseline"
    /\ context_from.img = cycle
    /\ last_gray_img # gray_img

\* C12 as stated: stop() can be called several times and each call runs to
\* its end; and once stop() has returned the command queue never gains an
\* entry again, wherever the continuous loop was (reading, transcribing) when
\* stop() was called: from then on the queue only changes by get_command()
\* taking its oldest entry.
C12_NothingQueuedAfterStop ==
    /\ [](/\ stop_pc = "idle" => ENABLED StopFlag
          /\ stop_pc = "flagged" => ENABLED StopTerminate)
    /\ [][/\ ~vp_running => ~vp_running'
          /\ pa_terminated =>
                /\ ~QueueGains
                /\ command_queue' # command_queue =>
                      command_queue' = Tail(command_queue)]_vars

\* stop() has returned while the loop is transcribing the chunk it read
\* before
C12_Witness ==
    /\ pa_terminated
    /\ stop_pc = "idle"
    /\ l_pc = "recognize"
    /\ frames >= 1

(***************************************************************************)
(* Claims about stopping the two background loops.                         *)
(***************************************************************************)
\* the locals and the position of the sampler thread
SamplerLocals == <<s_pc, gray_img, s_text, active_app, cycle, made_in>>

\* the locals and the position of the continuous loop's thread
ListenLocals == <<l_pc, frames, silence_count, text>>

ExtractionPhases == {"extract", "active_app", "publish", "baseline"}

\* the mean of the squared pixel differences of two frames of one shape is
\* below the threshold
MeanSquaredBelow(a, b) ==
    /\ Len(a) = Len(b)
    /\ SumSeq([i \in DOMAIN a |-> (a[i] - b[i]) * (a[i] - b[i])]) < THRESHOLD * Len(a)

\* C14 as stated: in a cycle whose frame differs from the frame captured in
\* the cycle before it by a mean-squared difference below the threshold, no
\* text is extracted and the snapshot is not replaced.
C14_UnchangedAgainstPrevious ==
    /\ [](s_pc \in ExtractionPhases =>
            (prev_img = NoFrame \/ ~MeanSquaredBelow(gray_img, prev_img)))
    /\ [][context' # context => s_pc = "publish"]_vars

\* C14 as amended: in a cycle whose frame differs from the baseline frame
\* (the frame the published snapshot was derived from) by a mean-squared
\* difference below the threshold, no text is extracted and the snapshot is
\* not replaced.
C14_UnchangedAgainstBaseline ==
    /\ [](s_pc \in ExtractionPhases =>
            (last_gray_img = NoFrame \/ ~MeanSquaredBelow(gray_img, last_gray_img)))
    /\ [][context' # context => s_pc = "publish"]_vars

\* a third cycle is skipped: its frame is far from the frame of the cycle
\* before it and close to the baseline
C14_Witness ==
    /\ cycle = 3
    /\ s_pc = "sleep"
    /\ prev_img = <<16, 16>>
    /\ gray_img = <<0, 0>>
    /\ last_gray_img = <<8, 8>>
    /\ context_from.img = 1

(***************************************************************************)
(* Claims about the microphone and capture_voice().                        *)
(***************************************************************************)
\* the positions of the continuous loop inside its with self.lock block
ListenLocked == {"open", "inner", "read", "recognize", "sleep", "close", "except"}

\* the positions of a capture_voice() call inside its with self.lock block
CaptureLocked == {"open", "loop", "read", "close", "recognize"}

\* the threads that are inside a with self.lock block
InsideLock ==
    (IF l_pc \in ListenLocked THEN {"listener"} ELSE {})
        \cup {c \in Capturers : c_pc[c] \in CaptureLocked}

\* the number of audio input streams that are open
OpenStreams ==
    (IF l_stream THEN 1 ELSE 0) + Cardinality({c \in Capturers : c_stream[c]}) + leaked

\* C15 as stated: of the continuous loop and the capture_voice() calls at
\* most one is inside its with self.lock block, and it is the holder of the
\* lock; a thread's stream is open, and is opened or read, only while the
\* thread holds the lock; and at most one audio input stream is open.
C15_OneUserOfMicrophone ==
    /\ Cardinality(InsideLock) <= 1
    /\ \A t \in InsideLock : vp_lock = t
    /\ InsideLock = {} => vp_lock = "free"
    /\ l_stream => vp_lock = "listener"
    /\ \A c \in Capturers : c_stream[c] => vp_lock = c
    /\ OpenStreams <= 1

\* a capture_voice() call reads its stream while a stream that the
\* continuous loop left open after a failed read is still open
C15_Witness ==
    /\ leaked = 1
    /\ c_pc["c1"] = "read"
    /\ c_stream["c1"]
    /\ c_pc["c2"] = "lock"
    /\ l_pc = "lock"
    /\ ~pa_terminated

(***************************************************************************)
(* Claims about failures inside the loops.                                 *)
(***************************************************************************)
\* C16 as stated: whatever step of a cycle fails, each loop goes on: the
\* sampler's thread and the continuous loop's thread end only after stop()
\* has cleared self.running, and a thread that has not ended is at a position
\* of its loop.
C16_LoopsEndOnlyByStop ==
    /\ s_pc \in {"exit", "dead"} => ~cm_running
    /\ l_pc = "exit" => ~vp_running

\* the sampler's thread has ended in the change check of its second cycle,
\* stop() not having been called
C16_Witness ==
    /\ s_pc = "dead"
    /\ cm_running
    /\ cycle = 2
    /\ gray_img = ResizedFrame
    /\ last_gray_img = <<0, 0>>
    /\ cm_lock = "free"

\* C17 as stated: a capture_voice() call that has ended has returned (a
\* transcript or a failure value, never an exception), it no longer holds the
\* lock, it has returned the transcript exactly when the transcription
\* succeeded, and the value returned when the speech was not understood
\* differs from the value returned when the recognition service failed.
C17_TypedFailure ==
    /\ \A c \in Capturers :
          c_pc[c] = "done" =>
              /\ c_ret[c].kind \in {"text", "none"}
              /\ c_ret[c].kind = "text" <=> c_cause[c] = "transcribed"
              /\ vp_lock # c
    /\ \A c, d \in Capturers :
          (c_pc[c] = "done" /\ c_pc[d] = "done" /\ c_cause[c] = "unknown_value"
               /\ c_cause[d] = "request_error")
              => c_ret[c] # c_ret[d]

\* one call has ended on UnknownValueError and another on RequestError
C17_Witness ==
    /\ c_pc["c1"] = "done"
    /\ c_pc["c2"] = "done"
    /\ c_cause["c1"] = "unknown_value"
    /\ c_cause["c2"] = "request_error"
    /\ vp_lock = "free"

\* C18 as stated: a capture_voice() call that has reached the lock gets it
\* and returns in the end, whatever the recognizer answers to the continuous
\* loop.
C18_CaptureGetsMicrophone ==
    \A c \in Capturers : c_pc[c] = "lock" ~> c_pc[c] = "done"

\* a capture_voice() call waits for the lock while the continuous loop, its
\* stream open, has just had a transcription succeed
C18_Witness ==
    /\ c_pc["c1"] = "lock"
    /\ vp_lock = "listener"
    /\ l_pc = "sleep"
    /\ text = PieceWord
    /\ silence_count = 0
    /\ vp_running
    /\ stop_pc = "idle"

(***************************************************************************)
(* Claims about the audio buffer and the silence timeout.                  *)
(***************************************************************************)
\* C19 as stated: the continuous loop's buffer never holds more chunks than
\* the recent-audio window, int(rate / chunk * 5) chunks, whatever the
\* recognizer answers.
C19_BufferCapped == frames <= WindowChunks

\* the buffer holds one chunk more than the window, of which the recognizer
\* is handed the window
C19_Witness ==
    /\ l_pc = "recognize"
    /\ frames = WindowChunks + 1
    /\ AudioChunks(frames) = WindowChunks
    /\ silence_count = 0
    /\ vp_running

\* the positions of the continuous loop inside its inner loop
ReadingPhases == {"inner", "read", "recognize", "sleep"}

\* one step of the continuous loop, told by what it does to the silence
\* count, the stream and the lock
SilenceStep ==
    /\ (l_pc = "recognize" /\ l_pc' # "recognize") =>
          /\ silence_count' \in {0, silence_count + CHUNK}
          /\ silence_count' = 0 => l_pc' = "sleep"
          /\ l_pc' = IF silence_count' > MAX_SILENCE * RATE THEN "close" ELSE "sleep"
    /\ (l_pc # "recognize" /\ l_stream /\ l_stream') =>
          silence_count' = silence_count
    /\ (l_pc = "close" /\ l_pc' # "close" /\ ~pa_terminated) =>
          /\ ~l_stream'
          /\ vp_lock' = "free"
          /\ leaked' = leaked
          /\ l_pc' = "while"
    /\ (l_pc = "while" /\ l_pc' # "while") =>
          l_pc' = IF vp_running THEN "lock" ELSE "exit"
    /\ (~l_stream /\ l_stream') =>
          /\ l_pc = "open"
          /\ frames' = 0
          /\ silence_count' = 0

\* C20: in one open stream the silence count grows by one chunk on a failed
\* transcription and returns to zero on a successful one; once it exceeds
\* MAX_SILENCE seconds the loop reads no more, closes the stream and releases
\* the lock, and unless stopped comes back to open a stream, which starts
\* with an empty buffer and a silence count of zero.
C20_SilenceTimeout ==
    /\ [][SilenceStep]_vars
    /\ [](l_pc \in ReadingPhases => silence_count <= MAX_SILENCE * RATE)
    /\ (l_pc = "close") ~> (~l_stream /\ vp_lock # "listener")
    /\ (l_pc = "close" /\ silence_count > MAX_SILENCE * RATE)
          ~> (l_pc = "open" \/ ~vp_running)

\* the silence count has just passed MAX_SILENCE seconds, at the first chunk
\* that does so, and the loop has left its inner loop with the stream open
C20_Witness ==
    /\ l_pc = "close"
    /\ silence_count > MAX_SILENCE * RATE
    /\ silence_count - CHUNK <= MAX_SILENCE * RATE
    /\ l_stream
    /\ vp_lock = "listener"
    /\ vp_running

(***************************************************************************)
(* Claims about the sampler's cycle.                                       *)
(***************************************************************************)
\* the sampler is in a cycle whose capture returned no frame
InFailedCycle == s_pc = "sleep" /\ gray_img = NoFrame

\* C21: a cycle whose capture_screen() returned no frame takes no lock, makes
\* no change check and no extraction, leaves the published snapshot and the
\* baseline frame as they were, and goes to the delay and the next loop test.
C21_FailedCaptureSkipsCycle ==
    /\ [][/\ (s_pc = "capture" /\ gray_img' = NoFrame /\ s_pc' # "capture") =>
                /\ s_pc' = "sleep"
                /\ UNCHANGED <<cm_lock, context, last_gray_img, context_from, s_text,
                               active_app>>
          /\ (InFailedCycle /\ s_pc' # "sleep") =>
                /\ s_pc' = "while"
                /\ UNCHANGED <<cm_lock, context, last_gray_img, context_from, cycle>>]_vars
    /\ [](s_pc \in LockedPhases \cup {"lock"} => gray_img # NoFrame)
    /\ [](InFailedCycle =>
             /\ cm_lock # "sampler"
             /\ made_in.img = cycle
             /\ context_from.img < cycle
             /\ made_in.text < cycle)

\* the third cycle has captured a frame after a second cycle whose capture
\* failed and a first cycle that published: snapshot and baseline are still
\* those of the first cycle
C21_Witness ==
    /\ s_pc = "lock"
    /\ cycle = 3
    /\ prev_img = NoFrame
    /\ gray_img # NoFrame
    /\ context_from.img = 1
    /\ context # EmptyContext
    /\ last_gray_img # NoFrame

\* one step, told by what it does to the snapshot and to the baseline: the
\* snapshot is replaced only inside the critical section, by the step that
\* leads to the baseline update, and the baseline only by the step that ends
\* the critical section, with the frame the snapshot was just derived from
ReplacedTogether ==
    /\ context_from' # context_from =>
          /\ cm_lock = "sampler" /\ cm_lock' = "sampler"
          /\ s_pc = "publish" /\ s_pc' = "baseline"
          /\ context_from'.img = cycle
          /\ context' # EmptyContext
          /\ UNCHANGED <<last_gray_img, gray_img>>
    /\ context' # context => context_from' # context_from
    /\ (s_pc = "baseline" /\ s_pc' # "baseline") =>
          /\ cm_lock = "sampler" /\ cm_lock' = "free"
          /\ last_gray_img' = gray_img
          /\ context_from.img = cycle /\ made_in.img = cycle
          /\ UNCHANGED <<context, context_from>>
    /\ last_gray_img' # last_gray_img => s_pc = "baseline"

\* C22: the snapshot and the baseline frame are replaced together in one
\* critical section.  Whenever the sampler does not hold its lock, the
\* baseline is absent exactly when the snapshot is empty, and the baseline of
\* a snapshot of the current cycle is that cycle's frame, whatever the
\* extraction returned; the sampler never holds its lock while it sleeps.
C22_SnapshotAndBaselineTogether ==
    /\ [][ReplacedTogether]_vars
    /\ [](cm_lock # "sampler" =>
             /\ last_gray_img = NoFrame <=> context = EmptyContext
             /\ context = EmptyContext <=> context_from.img = 0
             /\ (context_from.img = cycle /\ cycle >= 1) =>
                    /\ made_in.img = cycle
                    /\ last_gray_img = gray_img
                    /\ gray_img # NoFrame)
    /\ [](s_pc \in {"sleep", "while", "capture", "lock", "exit", "dead"} =>
             cm_lock # "sampler")
    /\ [](s_pc \in LockedPhases => cm_lock = "sampler")

\* the sampler sleeps, its lock free, after a second cycle whose OCR failed:
\* the snapshot carries the failure marker and the baseline is the second
\* cycle's frame
C22_Witness ==
    /\ s_pc = "sleep"
    /\ cm_lock = "free"
    /\ cycle = 2
    /\ context_from.img = 2
    /\ context.screen_content = OCR_FAILED
    /\ last_gray_img = gray_img
    /\ last_gray_img # prev_img
    /\ prev_img # NoFrame

(***************************************************************************)
(* Claims about the streams and the poll.                                  *)
(***************************************************************************)
\* C23 as stated: every audio input stream is closed by the time its owner
\* releases the lock: a thread's stream is open only while the thread holds
\* the lock, and no stream stays open without an owner, on any path of the
\* continuous loop or of capture_voice().
C23_NoStreamLeftOpen ==
    /\ leaked = 0
    /\ l_stream => (vp_lock = "listener" /\ l_pc \in ListenLocked)
    /\ \A c \in Capturers : c_stream[c] => (vp_lock = c /\ c_pc[c] \in CaptureLocked)

\* a capture_voice() call has returned None after its read raised, PyAudio
\* not terminated: the lock is free and the call's stream is still open
C23_Witness ==
    /\ c_pc["c1"] = "done"
    /\ c_cause["c1"] = "exception"
    /\ c_ret["c1"] = NoneResult
    /\ c_frames["c1"] = 0
    /\ leaked = 1
    /\ vp_lock = "free"
    /\ ~l_stream
    /\ ~pa_terminated
    /\ vp_running

\* the ids of the entries whose poll has given its answer
Answered ==
    {popped[i].entry.id : i \in {j \in 1..Len(popped) :
        ~(p_pc[popped[j].by] = "got" /\ p_ret[popped[j].by] = popped[j].entry)}}

\* C24 as stated: every command the poll removes from the queue is handed to
\* command processing, the empty command of a transcript that is the wake
\* phrase alone included, and the poll answers "No voice command available"
\* only when get_command() found the queue empty.
C24_NoCommandLost ==
    /\ [][\A p \in Pollers :
            (p_pc[p] = "got" /\ p_pc'[p] = "idle") =>
                IF p_ret[p] = NoCommand
                THEN p_out'[p] = NO_COMMAND_AVAILABLE /\ dispatched' = dispatched
                ELSE /\ p_out'[p] = Processed(p_ret[p].id)
                     /\ dispatched' = dispatched \cup {p_ret[p].id}]_vars
    /\ [](Answered \subseteq dispatched)

\* the transcript " Hey Assistant" was queued as the empty command, a poll
\* took it from the queue and answered "No voice command available"; the
\* command was handed to nothing
C24_Witness ==
    /\ Len(popped) = 1
    /\ popped[1].by = "p1"
    /\ popped[1].entry.heard = PieceSpace \o PieceWake
    /\ popped[1].entry.cmd = <<>>
    /\ p_pc["p1"] = "idle"
    /\ p_out["p1"] = NO_COMMAND_AVAILABLE
    /\ dispatched = {}
    /\ command_queue = <<>>

====
